---- MODULE Spec2Model ----
(***************************************************************************)
(* Payout lifecycle of the vendor service: the payout API                  *)
(* (apps/payouts/views.py), the Celery tasks process_scheduled_payouts,    *)
(* process_payout and retry_failed_payouts (apps/vendors/tasks.py) and the *)
(* models they persist (apps/payouts/models.py).                           *)
(*                                                                         *)
(* The database runs in autocommit mode: no handler opens a transaction or *)
(* takes a row lock, so every query is one atomic step and the steps of    *)
(* concurrent handlers interleave.  Model.save() writes every column of    *)
(* the row from the in-memory object, so a handler that holds a stale copy *)
(* overwrites what others wrote in between.                                *)
(***************************************************************************)
EXTENDS Integers, Sequences, FiniteSets, Bags, TLC

----------------------------------------------------------------------------
(* Bounds of the model *)

\* API create requests in flight at a time
MaxRequests == 2
\* Payout rows ever inserted
MaxPayouts == 2
\* process_payout task messages queued or running at a time
MaxTasks == 2
\* runs of retry_failed_payouts started in one behaviour (they may overlap)
MaxRetryRuns == 2
\* runs of process_scheduled_payouts in flight at a time
MaxSweeps == 1
\* exceptions raised by the database / broker inside process_payout
MaxFaults == 1
\* distinct values uuid4().hex[:8] may take
MaxRef == 2
\* the vendor's available_balance at the start
InitialAvailable == 100
\* submits to a processor adapter in one behaviour of the adapter specification
MaxCalls == 2
\* the largest PAYPAL_MAX_RETRIES setting explored
MaxRetriesSetting == 3
\* distinct values of the random part of a sender_batch_id
MaxNonce == 2
\* the available_balance of a vendor who can ask for more than the PayPal limit
LargeAvailable == 20000
\* rows of the payout_accounts table
MaxAccounts == 6
\* process_scheduled_payouts runs in their loop at one time, where runs overlap
MaxOverlap == 2

(* Program constants *)

\* settings.MIN_PAYOUT_AMOUNT: a deployment setting read by can_request_payout;
\* the settings module is not among the sources, the value is a model parameter
MIN_PAYOUT_AMOUNT == 10
\* PayoutSchedule.minimum_payout_amount default
DefaultMinimumPayout == 50
\* retry_failed_payouts: retry_count__lt=3
MaxPayoutRetries == 3
\* @shared_task(bind=True, max_retries=3) of process_payout
TaskMaxRetries == 3
\* update_next_payout_date intervals
WeeklyDays == 7
BiWeeklyDays == 14
MonthlyDays == 30
\* PayPalProcessor.process_payout: payout.amount > 10000
PayPalMaxAmount == 10000

----------------------------------------------------------------------------
(* Values *)

Vendors == {1}
Amounts == {5, 70}
NULL == "null"
NoDate == -1

\* Payout.PayoutStatus
PENDING == "pending"
PROCESSING == "processing"
COMPLETED == "completed"
FAILED == "failed"
CANCELLED == "cancelled"
PayoutStatus == {PENDING, PROCESSING, COMPLETED, FAILED, CANCELLED}

\* PayoutAccount.AccountType
BANK_ACCOUNT == "bank_account"
PAYPAL == "paypal"
STRIPE == "stripe"
CASH == "cash"

\* The payout accounts of the vendor: a Stripe account (primary) with its
\* stripe_account_id and a cash account, which no processor serves, both set
\* up and verified by an administrator; a PayPal account verified through the
\* API; a bank account not yet verified.
InitAccounts ==
  << [vendor |-> 1, account_type |-> STRIPE, is_primary |-> TRUE,
      verification_status |-> "verified", has_stripe_id |-> TRUE, has_email |-> FALSE,
      verified_at |-> TRUE, verification_attempts |-> 0],
     [vendor |-> 1, account_type |-> PAYPAL, is_primary |-> FALSE,
      verification_status |-> "verified", has_stripe_id |-> FALSE, has_email |-> TRUE,
      verified_at |-> TRUE, verification_attempts |-> 0],
     [vendor |-> 1, account_type |-> CASH, is_primary |-> FALSE,
      verification_status |-> "verified", has_stripe_id |-> FALSE, has_email |-> FALSE,
      verified_at |-> TRUE, verification_attempts |-> 0],
     [vendor |-> 1, account_type |-> BANK_ACCOUNT, is_primary |-> FALSE,
      verification_status |-> "pending", has_stripe_id |-> FALSE, has_email |-> FALSE,
      verified_at |-> FALSE, verification_attempts |-> 0] >>

\* payout_account_id values a request may carry: the rows and an id of no row
AccountIds == 1..(Len(InitAccounts) + 1)

\* Answers of the payment processor to a submit
ProcessorAnswers == {"ok", "permanent", "transient"}

VARIABLES
  accounts,   \* payout_accounts table: id -> row
  payouts,    \* payouts table: id -> row
  balance,    \* vendor_balances table: vendor -> row
  schedule,   \* payout_schedules table: vendor -> row
  today,      \* timezone.now().date()
  req,        \* PayoutViewSet.create requests in flight: slot -> position and locals
  response,   \* the response a create request has just given, until it is delivered
  tasks,      \* bag of process_payout task messages, queued or running, with their locals
  runs,       \* bag of retry_failed_payouts runs: the rows each fetched and has still to handle
  started,    \* retry_failed_payouts runs started so far
  sweeps,     \* bag of process_scheduled_payouts runs: the schedules each fetched and has still to handle
  faults,     \* exceptions raised so far inside process_payout
  debits,     \* history: payout id -> number of balance writes made for it
  call,       \* a processor adapter at work: the PayPal API call in progress and what was sent
  saves       \* bag of PayoutAccount.save calls between their UPDATE and their INSERT

vars == <<accounts, payouts, balance, schedule, today, req, response, tasks, runs, started, sweeps, faults,
          debits, call, saves>>

Put(bag, x) == bag (+) SetToBag({x})
Take(bag, x) == bag (-) SetToBag({x})

----------------------------------------------------------------------------
(* Models *)

\* Payout.save without line 153: net_amount is stored as the caller gave it
PayoutSaveKeepsNet(p, ref) ==
  [p EXCEPT !.reference_number = IF p.reference_number = 0 THEN ref ELSE p.reference_number]

\* Payout.save with a reference_number generated at every save
PayoutSaveRegenerates(p, ref) ==
  [p EXCEPT !.reference_number = ref,
            !.net_amount = p.amount - p.commission_fee - p.processing_fee]

\* Payout.save: reference_number when empty, net_amount recomputed
PayoutSave(p, ref) ==
  [p EXCEPT !.reference_number = IF p.reference_number = 0 THEN ref ELSE p.reference_number,
            !.net_amount = p.amount - p.commission_fee - p.processing_fee]

\* The field defaults of a new Payout object.  The fees are taken as the
\* decimal zero a row read from the database holds.  (The fields declare
\* default=0.00, a float, which is what the object built by
\* Payout.objects.create holds until it is read back; line 153 subtracts it
\* from a Decimal amount, which Python refuses with TypeError.  The model
\* follows the arithmetic on decimal values.)
NewPayout(v, acct, amt, method, net) ==
  [vendor |-> v, payout_account |-> acct, amount |-> amt, payout_method |-> method,
   status |-> PENDING, commission_fee |-> 0, processing_fee |-> 0, net_amount |-> net,
   reference_number |-> 0, processor_reference |-> NULL, failure_reason |-> NULL,
   retry_count |-> 0, processed_at |-> FALSE, completed_at |-> FALSE]

\* unique=True on reference_number
RefInUse(ref) == \E i \in DOMAIN payouts : payouts[i].reference_number = ref

\* A value of uuid4().hex[:8]: one of those in use, or a new one (the next
\* unused value stands for every value not in use)
RefChoices == {ref \in 1..MaxRef : ref = 1 \/ RefInUse(ref) \/ RefInUse(ref - 1)}

\* VendorBalance.can_request_payout
can_request_payout(bal, amount) ==
  bal.available_balance >= amount /\ amount >= MIN_PAYOUT_AMOUNT

\* balance.available_balance -= amount; balance.total_payouts += amount
Debit(bal, amount) ==
  [available_balance |-> bal.available_balance - amount,
   total_payouts |-> bal.total_payouts + amount]

\* PayoutViewSet.get_payout_method
get_payout_method(account_type) ==
  CASE account_type = BANK_ACCOUNT -> "bank_transfer"
    [] account_type = PAYPAL -> "paypal"
    [] account_type = STRIPE -> "stripe"
    [] OTHER -> "manual"

\* PayoutViewSet.get_processor
get_processor(account_type) ==
  IF account_type \in {BANK_ACCOUNT, STRIPE} THEN "StripeProcessor"
  ELSE IF account_type = PAYPAL THEN "PayPalProcessor"
  ELSE "unsupported"

\* StripeProcessor.process_payout: every failure comes back as a result
StripeProcessPayout(acct, answer) ==
  IF ~acct.has_stripe_id
    THEN [outcome |-> "failure", error |-> "Stripe account not configured", called |-> FALSE]
  ELSE IF answer = "ok" THEN [outcome |-> "success", error |-> NULL, called |-> TRUE]
  ELSE [outcome |-> "failure", error |-> "StripeError", called |-> TRUE]

\* PayPalProcessor.process_payout: every failure is raised as PayoutError;
\* the checks of lines 292-305 come before the request to PayPal (called)
PayPalProcessPayout(p, acct, answer) ==
  IF ~acct.has_email
    THEN [outcome |-> "raise", error |-> "PayPal account email is required", called |-> FALSE]
  ELSE IF p.amount <= 0
    THEN [outcome |-> "raise", error |-> "Payout amount must be positive", called |-> FALSE]
  ELSE IF p.amount > PayPalMaxAmount
    THEN [outcome |-> "raise", error |-> "Payout amount cannot exceed $10,000", called |-> FALSE]
  ELSE IF answer = "ok" THEN [outcome |-> "success", error |-> NULL, called |-> TRUE]
  ELSE [outcome |-> "raise", error |-> "PayPalError", called |-> TRUE]

----------------------------------------------------------------------------
(* PayoutViewSet.create *)

NoBalance == [available_balance |-> 0, total_payouts |-> 0]

\* A slot with no request in it
IdleRequest == [pc |-> "idle", payout |-> 0, bal |-> NoBalance]

\* The response of a request: what it answered, the payout row it inserted
\* (0: none) and the answer the processor gave it
Response(result, payout, answer) == [result |-> result, payout |-> payout, answer |-> answer]

NoResponse == Response(NULL, 0, NULL)

\* No response is waiting to be delivered: the response of a request reaches
\* the client before any handler takes its next step
Quiet == response.result = NULL

\* PayoutCreateSerializer.validate, the outcome of is_valid(raise_exception=True)
Validate(v, acct, amount) ==
  IF ~(acct \in DOMAIN accounts /\ accounts[acct].vendor = v) THEN "400 account"
  ELSE IF accounts[acct].verification_status # "verified" THEN "400 unverified"
  \* the message of this rejection reads balance.minimum_payout_amount,
  \* which VendorBalance does not have: AttributeError instead of ValidationError
  ELSE IF ~can_request_payout(balance[v], amount) THEN "500 balance"
  ELSE "ok"

\* CreateRecord with the row inserted before the serializer has validated
CreateRecordUnvalidated(r, v, acct, amount) ==
  /\ Quiet
  /\ req[r].pc = "idle"
  /\ \A q \in 1..(r - 1) : req[q].pc # "idle"
  /\ \E ref \in RefChoices :
       /\ ~RefInUse(ref)
       /\ Len(payouts) < MaxPayouts
       /\ payouts' = Append(payouts,
              PayoutSave(NewPayout(v, acct, amount,
                                   IF acct \in DOMAIN accounts
                                     THEN get_payout_method(accounts[acct].account_type)
                                     ELSE "manual",
                                   amount), ref))
       /\ debits' = Append(debits, 0)
       /\ IF Validate(v, acct, amount) # "ok"
            THEN /\ response' = Response(Validate(v, acct, amount), 0, NULL)
                 /\ UNCHANGED req
            ELSE /\ req' = [req EXCEPT ![r].pc = "created", ![r].payout = Len(payouts) + 1]
                 /\ UNCHANGED response
  /\ UNCHANGED <<saves, call, accounts, balance, schedule, today, tasks, runs, started, sweeps, faults>>

\* lines 83-101: serializer.is_valid, then Payout.objects.create: the row is
\* inserted PENDING, or the insert violates unique(reference_number) and the
\* request ends with IntegrityError.  Nothing another handler does between
\* the two queries changes what either does, so they are one step.
CreateRecord(r, v, acct, amount) ==
  /\ Quiet
  /\ req[r].pc = "idle"
  /\ \A q \in 1..(r - 1) : req[q].pc # "idle"
  /\ IF Validate(v, acct, amount) # "ok"
       THEN /\ response' = Response(Validate(v, acct, amount), 0, NULL)
            /\ UNCHANGED <<req, payouts, debits>>
       ELSE \E ref \in RefChoices :
              IF RefInUse(ref)
                THEN /\ response' = Response("500 integrity", 0, NULL)
                     /\ UNCHANGED <<req, payouts, debits>>
                ELSE /\ Len(payouts) < MaxPayouts
                     /\ payouts' = Append(payouts,
                            PayoutSave(NewPayout(v, acct, amount,
                                                 get_payout_method(accounts[acct].account_type),
                                                 amount), ref))
                     /\ debits' = Append(debits, 0)
                     /\ req' = [req EXCEPT ![r].pc = "created", ![r].payout = Len(payouts) + 1]
                     /\ UNCHANGED response
  /\ UNCHANGED <<saves, call, accounts, balance, schedule, today, tasks, runs, started, sweeps, faults>>

\* lines 104-110 and 120-127: get_processor and processor.process_payout, the
\* branch on processing_result['success'] with its payout.save(), and on
\* success the read of the balance row (line 150)
CreateSubmit(r, answer) ==
  /\ Quiet
  /\ req[r].pc = "created"
  /\ LET i == req[r].payout
         a == accounts[payouts[i].payout_account]
         proc == get_processor(a.account_type)
         res == IF proc = "StripeProcessor" THEN StripeProcessPayout(a, answer)
                ELSE PayPalProcessPayout(payouts[i], a, answer)
         \* what the processor answered, when the adapter sent it a request
         given == IF res.called THEN answer ELSE NULL
     IN IF proc = "unsupported"
          \* CustomException 'Unsupported payout method.': the row stays as inserted
          THEN /\ response' = Response("400 unsupported", i, NULL)
               /\ req' = [req EXCEPT ![r] = IdleRequest]
               /\ UNCHANGED payouts
          ELSE IF res.outcome = "raise"
          \* PayoutError propagates out of create: the row stays as inserted
          THEN /\ response' = Response("400 raised", i, given)
               /\ req' = [req EXCEPT ![r] = IdleRequest]
               /\ UNCHANGED payouts
          ELSE IF res.outcome = "success"
          THEN /\ payouts' = [payouts EXCEPT ![i] =
                                PayoutSave([@ EXCEPT !.status = PROCESSING,
                                                     !.processor_reference = "processor-id"], 0)]
               /\ req' = [req EXCEPT ![r].pc = "balread", ![r].bal = balance[payouts[i].vendor]]
               /\ UNCHANGED response
          ELSE /\ payouts' = [payouts EXCEPT ![i] =
                                PayoutSave([@ EXCEPT !.status = FAILED,
                                                     !.failure_reason = res.error], 0)]
               /\ response' = Response("400 failed", i, given)
               /\ req' = [req EXCEPT ![r] = IdleRequest]
  /\ UNCHANGED <<saves, call, accounts, balance, schedule, today, tasks, runs, started, sweeps, faults, debits>>

\* update_vendor_balance lines 151-153, then the 201 response
CreateWriteBalance(r) ==
  /\ Quiet
  /\ req[r].pc = "balread"
  /\ LET i == req[r].payout
         v == payouts[i].vendor
     IN /\ balance' = [balance EXCEPT ![v] = Debit(req[r].bal, payouts[i].amount)]
        /\ debits' = [debits EXCEPT ![i] = @ + 1]
        /\ response' = Response("201", i, "ok")
        /\ req' = [req EXCEPT ![r] = IdleRequest]
  /\ UNCHANGED <<saves, call, accounts, payouts, schedule, today, tasks, runs, started, sweeps, faults>>

----------------------------------------------------------------------------
(* process_payout (Celery task, max_retries=3) *)

NoRow == NewPayout(0, 0, 0, NULL, 0)

\* process_payout.delay(payout.id) sends a task message with request.retries = 0
NewTask(i, retries) ==
  [payout |-> i, retries |-> retries, pc |-> "queued", loaded |-> NULL,
   copy |-> NoRow, bal |-> NoBalance]

\* line 607: Payout.objects.select_related(...).get(id=payout_id)
PPFetch(t) ==
  /\ Quiet
  /\ BagIn(t, tasks)
  /\ t.pc = "queued"
  /\ tasks' = Put(Take(tasks, t),
                  [t EXCEPT !.pc = "fetched", !.copy = payouts[t.payout],
                            !.loaded = payouts[t.payout].status])
  /\ UNCHANGED <<saves, call, accounts, payouts, balance, schedule, today, req, response, runs, started, sweeps, faults, debits>>

\* PPSavePayout without line 622: the processor_reference is left as fetched
PPSavePayoutNoReference(t) ==
  /\ Quiet
  /\ BagIn(t, tasks)
  /\ t.pc = "fetched"
  /\ LET done == PayoutSave([t.copy EXCEPT !.status = COMPLETED,
                                          !.processed_at = TRUE,
                                          !.completed_at = TRUE], 0)
     IN /\ payouts' = [payouts EXCEPT ![t.payout] = done]
        /\ tasks' = Put(Take(tasks, t),
                        [t EXCEPT !.pc = "balread", !.copy = done, !.bal = balance[done.vendor]])
  /\ UNCHANGED <<saves, call, accounts, balance, schedule, today, req, response, runs, started, sweeps, faults, debits>>

\* lines 619-626: the fetched object is marked COMPLETED and saved, and the
\* balance row is read
PPSavePayout(t) ==
  /\ Quiet
  /\ BagIn(t, tasks)
  /\ t.pc = "fetched"
  /\ LET done == PayoutSave([t.copy EXCEPT !.status = COMPLETED,
                                          !.processed_at = TRUE,
                                          !.completed_at = TRUE,
                                          !.processor_reference = "PROC-reference"], 0)
     IN /\ payouts' = [payouts EXCEPT ![t.payout] = done]
        /\ tasks' = Put(Take(tasks, t),
                        [t EXCEPT !.pc = "balread", !.copy = done, !.bal = balance[done.vendor]])
  /\ UNCHANGED <<saves, call, accounts, balance, schedule, today, req, response, runs, started, sweeps, faults, debits>>

\* lines 639-653: the handler of `except Exception`: the row is fetched again,
\* marked FAILED with the error text and saved, the failure mail is queued and
\* self.retry re-sends the task with retries + 1 until max_retries is reached
PPHandler(t) ==
  LET i == t.payout
      failed == [payouts[i] EXCEPT !.status = FAILED, !.failure_reason = "exception text"]
  IN /\ payouts' = [payouts EXCEPT ![i] = PayoutSave(failed, 0)]
     /\ tasks' = IF t.retries < TaskMaxRetries
                   THEN Put(Take(tasks, t), NewTask(i, t.retries + 1))
                   ELSE Take(tasks, t)

\* An exception raised by payout.save() (line 623) or by reading or saving the
\* balance (lines 626-629): a database error
PPRaise(t) ==
  /\ Quiet
  /\ BagIn(t, tasks)
  /\ t.pc \in {"fetched", "balread"}
  /\ faults < MaxFaults
  /\ faults' = faults + 1
  /\ PPHandler(t)
  /\ UNCHANGED <<saves, call, accounts, balance, schedule, today, req, response, runs, started, sweeps, debits>>

\* lines 627-634: the balance is debited and saved, then the notification is
\* dispatched; a dispatch that raises (broker down) lands in the handler
PPWriteBalance(t, notifyOk) ==
  /\ Quiet
  /\ BagIn(t, tasks)
  /\ t.pc = "balread"
  /\ balance' = [balance EXCEPT ![t.copy.vendor] = Debit(t.bal, t.copy.amount)]
  /\ debits' = [debits EXCEPT ![t.payout] = @ + 1]
  /\ IF notifyOk
       THEN /\ tasks' = Take(tasks, t)
            /\ UNCHANGED <<payouts, faults>>
       ELSE /\ faults < MaxFaults
            /\ faults' = faults + 1
            /\ PPHandler(t)
  /\ UNCHANGED <<saves, call, accounts, schedule, today, req, response, runs, started, sweeps>>

----------------------------------------------------------------------------
(* retry_failed_payouts (hourly) *)

\* retry_failed_payouts line 665: retry_count__lt=3
Retryable(p) == p.status = FAILED /\ p.retry_count < MaxPayoutRetries

\* the ids among 1..n the query selects, in the order of
\* Meta.ordering = ['-requested_at']: newest first
RECURSIVE FailedIds(_)
FailedIds(n) ==
  IF n = 0 THEN << >>
  ELSE IF Retryable(payouts[n]) THEN <<n>> \o FailedIds(n - 1)
  ELSE FailedIds(n - 1)

\* lines 663-666: the rows the query returns, as fetched
FailedPayouts ==
  LET ids == FailedIds(Len(payouts))
  IN [k \in DOMAIN ids |-> [id |-> ids[k], copy |-> payouts[ids[k]]]]

\* the run starts: the queryset is evaluated when the loop begins (a run that
\* finds no row does nothing)
RetryStart ==
  /\ Quiet
  /\ started < MaxRetryRuns
  /\ started' = started + 1
  /\ FailedPayouts # << >>
  /\ runs' = Put(runs, FailedPayouts)
  /\ UNCHANGED <<saves, call, accounts, payouts, balance, schedule, today, req, response, tasks, sweeps, faults, debits>>

\* what is left of a run after an iteration: a run that ended is gone
After(bag, run) == IF Tail(run) = << >> THEN Take(bag, run) ELSE Put(Take(bag, run), Tail(run))

\* lines 669-673: one iteration of the loop, on the row as the run fetched it
RetryItem(run) ==
  /\ Quiet
  /\ BagIn(run, runs)
  /\ BagCardinality(tasks) < MaxTasks
  /\ LET item == Head(run)
         again == [item.copy EXCEPT !.retry_count = @ + 1, !.status = PENDING]
     IN /\ payouts' = [payouts EXCEPT ![item.id] = PayoutSave(again, 0)]
        /\ tasks' = Put(tasks, NewTask(item.id, 0))
        /\ runs' = After(runs, run)
  /\ UNCHANGED <<saves, call, accounts, balance, schedule, today, req, response, started, sweeps, faults, debits>>

----------------------------------------------------------------------------
(* process_scheduled_payouts (daily) *)

\* update_next_payout_date: the date the schedule is moved to
NextPayoutDate(schedule_type, day) ==
  CASE schedule_type = "weekly" -> day + WeeklyDays
    [] schedule_type = "bi_weekly" -> day + BiWeeklyDays
    [] schedule_type = "monthly" -> day + MonthlyDays
    [] OTHER -> NoDate

\* lines 557-561: the filter of the query
Due(s, day) ==
  s.is_active /\ s.auto_process /\ s.next_payout_date # NoDate /\ s.next_payout_date <= day

\* the due schedules of the vendors in S, each with its vendor's balance row joined
RECURSIVE DueList(_)
DueList(S) ==
  IF S = {} THEN << >>
  ELSE LET v == CHOOSE x \in S : \A y \in S : x <= y
       IN <<[vendor |-> v, sched |-> schedule[v], bal |-> balance[v]]>> \o DueList(S \ {v})

DueSchedules == DueList({v \in DOMAIN schedule : Due(schedule[v], today)})

\* the run starts: the queryset is evaluated when the loop begins (a run that
\* finds no schedule does nothing)
SweepBegin(limit) ==
  /\ Quiet
  /\ BagCardinality(sweeps) < limit
  /\ DueSchedules # << >>
  /\ sweeps' = Put(sweeps, DueSchedules)
  /\ UNCHANGED <<saves, call, accounts, payouts, balance, schedule, today, req, response, tasks, runs, started, faults, debits>>

SweepStart == SweepBegin(MaxSweeps)

\* vendor.payout_accounts.filter(is_primary=True).first(): 0 when there is none
PrimaryAccount(v) ==
  LET prim == {a \in DOMAIN accounts : accounts[a].vendor = v /\ accounts[a].is_primary}
  \* Meta.ordering = ['-is_primary', '-created_at']: the newest comes first
  IN IF prim = {} THEN 0 ELSE CHOOSE a \in prim : \A b \in prim : a >= b

\* SweepItem with the inner try of lines 566-592 taken away: the exception of
\* an iteration ends the run
SweepItemAborting(run, ref) ==
  /\ Quiet
  /\ BagIn(run, sweeps)
  /\ LET item == Head(run)
         v == item.vendor
         acct == PrimaryAccount(v)
         p == PayoutSave(NewPayout(v, acct, item.bal.available_balance, "bank_transfer", 0), ref)
         moved == [item.sched EXCEPT
                     !.next_payout_date = NextPayoutDate(item.sched.schedule_type, today)]
     IN IF item.bal.available_balance >= item.sched.minimum_payout_amount
          THEN IF acct = 0 \/ RefInUse(ref)
                 THEN /\ sweeps' = Take(sweeps, run)
                      /\ UNCHANGED <<payouts, debits, tasks, schedule>>
                 ELSE /\ Len(payouts) < MaxPayouts
                      /\ BagCardinality(tasks) < MaxTasks
                      /\ payouts' = Append(payouts, p)
                      /\ debits' = Append(debits, 0)
                      /\ tasks' = Put(tasks, NewTask(Len(payouts) + 1, 0))
                      /\ schedule' = [schedule EXCEPT ![v] = moved]
                      /\ sweeps' = After(sweeps, run)
          ELSE /\ schedule' = [schedule EXCEPT ![v] = moved]
               /\ sweeps' = After(sweeps, run)
               /\ UNCHANGED <<payouts, debits, tasks>>
  /\ UNCHANGED <<saves, call, accounts, balance, today, req, response, runs, started, faults>>

\* lines 566-592: one iteration of the loop
SweepItem(run, ref) ==
  /\ Quiet
  /\ BagIn(run, sweeps)
  /\ LET item == Head(run)
         v == item.vendor
         acct == PrimaryAccount(v)
         p == PayoutSave(NewPayout(v, acct, item.bal.available_balance, "bank_transfer", 0), ref)
         moved == [item.sched EXCEPT
                     !.next_payout_date = NextPayoutDate(item.sched.schedule_type, today)]
     IN IF item.bal.available_balance >= item.sched.minimum_payout_amount
          THEN IF acct = 0 \/ RefInUse(ref)
                 \* IntegrityError of the insert: logged, the loop continues
                 THEN UNCHANGED <<payouts, debits, tasks, schedule>>
                 ELSE /\ Len(payouts) < MaxPayouts
                      /\ BagCardinality(tasks) < MaxTasks
                      /\ payouts' = Append(payouts, p)
                      /\ debits' = Append(debits, 0)
                      /\ tasks' = Put(tasks, NewTask(Len(payouts) + 1, 0))
                      /\ schedule' = [schedule EXCEPT ![v] = moved]
          ELSE /\ schedule' = [schedule EXCEPT ![v] = moved]
               /\ UNCHANGED <<payouts, debits, tasks>>
  /\ sweeps' = After(sweeps, run)
  /\ UNCHANGED <<saves, call, accounts, balance, today, req, response, runs, started, faults>>

----------------------------------------------------------------------------
(* PayoutAccountViewSet.create and verify *)

\* PayoutAccountCreateSerializer: the row a valid request inserts.  The
\* serializer takes no verification_status and no stripe_account_id: the
\* field defaults stand; a PayPal account must come with an email.
NewAccount(v, account_type, is_primary) ==
  [vendor |-> v, account_type |-> account_type, is_primary |-> is_primary,
   verification_status |-> "pending", has_stripe_id |-> FALSE,
   has_email |-> (account_type = PAYPAL),
   verified_at |-> FALSE, verification_attempts |-> 0]

\* PayoutAccount.save lines 65-69: the UPDATE that demotes the primary
\* accounts of the vendor of row
Demoted(row) ==
  [a \in DOMAIN accounts |->
     IF row.is_primary /\ accounts[a].vendor = row.vendor
       THEN [accounts[a] EXCEPT !.is_primary = FALSE]
       ELSE accounts[a]]

\* perform_create and PayoutAccount.save: a primary account is saved with two
\* queries, the UPDATE of line 66-69 and then the INSERT of line 70; any other
\* with the INSERT alone
CreateAccount(v, account_type, is_primary) ==
  /\ Quiet
  /\ Len(accounts) + BagCardinality(saves) < MaxAccounts
  /\ IF is_primary
       THEN /\ accounts' = Demoted(NewAccount(v, account_type, is_primary))
            /\ saves' = Put(saves, NewAccount(v, account_type, is_primary))
       ELSE /\ accounts' = Append(accounts, NewAccount(v, account_type, is_primary))
            /\ UNCHANGED saves
  /\ UNCHANGED <<call, payouts, balance, schedule, today, req, response, tasks, runs, started,
                 sweeps, faults, debits>>

\* PayoutAccount.save line 70: super().save() inserts the row
AccountInsert(row) ==
  /\ Quiet
  /\ BagIn(row, saves)
  /\ accounts' = Append(accounts, row)
  /\ saves' = Take(saves, row)
  /\ UNCHANGED <<call, payouts, balance, schedule, today, req, response, tasks, runs, started,
                 sweeps, faults, debits>>

\* PayoutAccountViewSet.get_processor
get_verifier(account_type) ==
  IF account_type = STRIPE THEN "StripeProcessor"
  ELSE IF account_type = PAYPAL THEN "PayPalProcessor"
  ELSE "unsupported"

\* StripeProcessor.verify_account: it serves account_type 'bank_account' only,
\* and an account of that type never reaches it (get_verifier)
StripeVerifyAccount(acct) ==
  IF acct.account_type = BANK_ACCOUNT
    THEN [outcome |-> "success", error |-> NULL]
    ELSE [outcome |-> "failure", error |-> "Unsupported account type for Stripe"]

\* PayPalProcessor.verify_account: every failure is raised as
\* PayoutAccountError: no email, or the exception of its payout_account.save()
\* (saved: FALSE); else the account counts as verified
PayPalVerifyAccount(acct, saved) ==
  IF ~acct.has_email
    THEN [outcome |-> "raise", error |-> "PayPal account email is required"]
  ELSE IF ~saved
    THEN [outcome |-> "raise", error |-> "PayPal account verification failed"]
  ELSE [outcome |-> "success", error |-> NULL]

\* The answer to a verify request, with the account it was for
VerifyResponse(result, a) == [result |-> result, payout |-> 0, answer |-> NULL, account |-> a]

\* the answers of verify after the adapter succeeded and after it failed
VerifyAnswers == {"200 verified", "400 verification failed", "400 raised"}

\* PayoutAccountViewSet.verify on account a of the vendor.  The steps of the
\* request are taken as one; payout_account.save() demotes the vendor's other
\* primary accounts when the account is primary.
Verify(a, saved) ==
  /\ Quiet
  /\ a \in DOMAIN accounts
  /\ LET acct == accounts[a]
         kind == get_verifier(acct.account_type)
         res == IF kind = "StripeProcessor" THEN StripeVerifyAccount(acct)
                ELSE PayPalVerifyAccount(acct, saved)
         Saved(row) == [Demoted(row) EXCEPT ![a] = row]
     IN IF kind = "unsupported"
          \* CustomException 'Unsupported account type.'
          THEN /\ response' = VerifyResponse("400 unsupported", a)
               /\ UNCHANGED accounts
          ELSE IF res.outcome = "raise"
          \* PayoutAccountError propagates out of verify
          THEN /\ response' = VerifyResponse("400 raised", a)
               /\ UNCHANGED accounts
          ELSE IF res.outcome = "success"
          THEN /\ accounts' = Saved([acct EXCEPT !.verification_status = "verified",
                                                 !.verified_at = TRUE])
               /\ response' = VerifyResponse("200 verified", a)
          ELSE /\ accounts' = Saved([acct EXCEPT !.verification_status = "failed"])
               /\ response' = VerifyResponse("400 verification failed", a)
  /\ UNCHANGED <<saves, call, payouts, balance, schedule, today, req, tasks, runs, started,
                 sweeps, faults, debits>>

----------------------------------------------------------------------------
(* PayPalProcessor.webhook_handler *)

\* the event types about a payout item, those about a batch, and two that
\* stand for every other event type ('' is what a payload without one gives)
WebhookEvents ==
  {"PAYMENT.PAYOUTS-ITEM.SUCCEEDED", "PAYMENT.PAYOUTS-ITEM.FAILED", "PAYMENT.PAYOUTS-ITEM.CANCELED"}
BatchEvents == {"PAYMENT.PAYOUTSBATCH.SUCCEEDED", "PAYMENT.PAYOUTSBATCH.DENIED"}
OtherEvents == {"CUSTOMER.DISPUTE.CREATED", ""}
EventTypes == WebhookEvents \cup BatchEvents \cup OtherEvents

\* the 'resource' of a payload: a JSON object, or null
Resources == {"object", NULL}

\* the message of the handler's answer to each event type
WebhookMessage(event_type) ==
  CASE event_type = "PAYMENT.PAYOUTS-ITEM.SUCCEEDED" -> "Payout success processed"
    [] event_type = "PAYMENT.PAYOUTS-ITEM.FAILED" -> "Payout failure processed"
    [] event_type = "PAYMENT.PAYOUTS-ITEM.CANCELED" -> "Payout cancellation processed"
    [] event_type = "PAYMENT.PAYOUTSBATCH.SUCCEEDED" -> "Batch success processed"
    [] event_type = "PAYMENT.PAYOUTSBATCH.DENIED" -> "Batch denial processed"
    [] OTHER -> "Webhook received but not processed"

\* WebhookResult of a handler without the else branch of line 714, every
\* event type going to a handler that reads the resource
WebhookResultNoElse(event_type, resource) ==
  IF resource = NULL
    THEN [success |-> FALSE, message |-> "AttributeError"]
    ELSE [success |-> TRUE, message |-> WebhookMessage(event_type)]

\* webhook_handler lines 697-720: the answer.  The five handlers read
\* resource.get(...): on a null resource that is AttributeError, which the
\* except clause of line 718 turns into a failure answer; the else branch of
\* line 714 does not touch the resource
WebhookResult(event_type, resource) ==
  IF event_type \in WebhookEvents \cup BatchEvents /\ resource = NULL
    THEN [success |-> FALSE, message |-> "AttributeError"]
    ELSE [success |-> TRUE, message |-> WebhookMessage(event_type)]

\* The answer to a webhook delivery, with the event it answers: its type, the
\* payout it names and its resource
WebhookResponse(event_type, i, resource) ==
  [result |-> WebhookResult(event_type, resource).message, payout |-> i,
   answer |-> event_type, resource |-> resource]

\* Webhook with the update that is commented out in the three item handlers
\* (lines 733-737, 757-760, 775-777) applied to the payout the event names
WebhookApplied(event_type, i, resource) ==
  /\ Quiet
  /\ i \in 0..Len(payouts)
  /\ response' = WebhookResponse(event_type, i, resource)
  /\ payouts' = IF i \in DOMAIN payouts /\ resource # NULL /\ event_type \in WebhookEvents
                  THEN [payouts EXCEPT ![i] =
                          IF event_type = "PAYMENT.PAYOUTS-ITEM.SUCCEEDED"
                            THEN PayoutSave([@ EXCEPT !.status = COMPLETED, !.completed_at = TRUE], 0)
                          ELSE IF event_type = "PAYMENT.PAYOUTS-ITEM.FAILED"
                            THEN PayoutSave([@ EXCEPT !.status = FAILED,
                                                      !.failure_reason = "Unknown error"], 0)
                          ELSE PayoutSave([@ EXCEPT !.status = CANCELLED], 0)]
                  ELSE payouts
  /\ UNCHANGED <<saves, call, accounts, balance, schedule, today, req, tasks, runs, started,
                 sweeps, faults, debits>>

\* webhook_handler with _handle_payout_success, _handle_payout_failed,
\* _handle_payout_cancelled, _handle_batch_success and _handle_batch_denied,
\* for an event that names payout i (0: a payout_item_id of no payout): the
\* event is logged and answered; the update of the payout is commented out
\* in all three item handlers, and no handler reads a Payout row
Webhook(event_type, i, resource) ==
  /\ Quiet
  /\ i \in 0..Len(payouts)
  /\ response' = WebhookResponse(event_type, i, resource)
  /\ UNCHANGED <<saves, call, accounts, payouts, balance, schedule, today, req, tasks, runs, started,
                 sweeps, faults, debits>>

\* PayPal sends an event about a payout item it was given
Notify(i) ==
  \E event_type \in WebhookEvents :
    /\ i \in DOMAIN payouts
    /\ payouts[i].payout_method = "paypal"
    /\ payouts[i].processor_reference # NULL
    /\ Webhook(event_type, i, "object")

----------------------------------------------------------------------------
(* PayPalProcessor._make_paypal_request, under _create_payout_batch *)

\* what an HTTP attempt can end with: a response, or an exception of requests
Statuses == {200, 400, 401, 403, 404, 429, 500}
Exceptions == {"Timeout", "ConnectionError", "Exception"}
Outcomes ==
  [kind : {"response"}, status_code : Statuses] \cup [kind : Exceptions, status_code : {0}]

\* no idempotency token in a request
NoToken == <<0, 0>>

\* No call in progress.  bearer is the token in the Authorization header of
\* the call, sent the one each attempt went out with; access_token is the
\* token the processor object has cached (0: None), issued the number of tokens PayPal has issued, calls the
\* number of submits started, submits what the processors were sent:
\* adapter, payout reference, idempotency token
IdleCall ==
  [pc |-> "idle", max_retries |-> 0, attempt |-> 0, attempts |-> << >>,
   last_exception |-> NULL, bearer |-> 0, sent |-> << >>, body |-> NoToken, result |-> 0,
   access_token |-> 0, issued |-> 0, calls |-> 0, submits |-> {}]

\* _create_payout_batch line 345: sender_batch_id, made of the payout's
\* reference_number and uuid4().hex[:8]
SenderBatchId(ref, nonce) == <<ref, nonce>>

\* _create_payout_batch lines 343-372 and _make_paypal_request lines 106-122:
\* the body is built, the token is taken from the cache or fetched
\* (_get_access_token raises PayPalError when PayPal refuses it), the headers
\* are built.  With max_retries = 0 the loop has no iteration: line 184.
CallStart(ref, max_retries, nonce, expired, tokenOk) ==
  /\ call.pc = "idle"
  /\ call.calls < MaxCalls
  /\ LET cached == call.access_token # 0 /\ ~expired
         token == IF cached THEN call.access_token ELSE call.issued + 1
         begun == [call EXCEPT !.calls = @ + 1, !.max_retries = max_retries,
                               !.body = SenderBatchId(ref, nonce)]
     IN call' = IF ~cached /\ ~tokenOk
                  THEN [begun EXCEPT !.pc = "raised"]
                  ELSE [begun EXCEPT !.pc = IF max_retries = 0 THEN "raised" ELSE "loop",
                                     !.access_token = token,
                                     !.issued = IF cached THEN @ ELSE token,
                                     !.bearer = token]
  /\ UNCHANGED <<saves, accounts, payouts, balance, schedule, today, req, response, tasks, runs, started,
                 sweeps, faults, debits>>

\* CallAttempt with a retry after 401 that is not counted as an attempt
CallAttemptUncounted(o) ==
  /\ call.pc = "loop"
  /\ LET last == ~(call.attempt < call.max_retries - 1)
         sent == [call EXCEPT !.attempts = Append(@, o), !.sent = Append(@, call.bearer),
                              !.submits = @ \cup {[adapter |-> "paypal", payout |-> call.body[1],
                                                   token |-> call.body]}]
     IN call' =
          IF o.kind = "response"
            THEN IF o.status_code < 400
                   THEN [sent EXCEPT !.pc = "returned", !.result = o.status_code]
                 ELSE IF o.status_code = 401
                   THEN [sent EXCEPT !.access_token = 0]
                 ELSE [sent EXCEPT !.pc = "raised"]
            ELSE IF ~last
                   THEN [sent EXCEPT !.last_exception = o.kind, !.attempt = @ + 1]
                   ELSE [sent EXCEPT !.last_exception = o.kind, !.pc = "raised"]
  /\ UNCHANGED <<saves, accounts, payouts, balance, schedule, today, req, response, tasks, runs, started,
                 sweeps, faults, debits>>

\* lines 124-184: one iteration of the loop, the HTTP attempt ending with o
CallAttempt(o) ==
  /\ call.pc = "loop"
  /\ LET last == ~(call.attempt < call.max_retries - 1)
         sent == [call EXCEPT !.attempts = Append(@, o), !.sent = Append(@, call.bearer),
                              !.submits = @ \cup {[adapter |-> "paypal", payout |-> call.body[1],
                                                   token |-> call.body]}]
     IN call' =
          IF o.kind = "response"
            THEN IF o.status_code < 400
                   THEN [sent EXCEPT !.pc = "returned", !.result = o.status_code]
                 ELSE IF o.status_code = 401
                   \* line 137: the cached token is dropped; the headers keep theirs
                   THEN IF ~last
                          THEN [sent EXCEPT !.access_token = 0, !.attempt = @ + 1]
                          ELSE [sent EXCEPT !.access_token = 0, !.pc = "raised"]
                 \* lines 143-156 and 170-172: PayPalError, raised on
                 ELSE [sent EXCEPT !.pc = "raised"]
            \* lines 158-178: the exception is kept and the loop goes on; after
            \* the last iteration lines 181-184 raise PayPalError
            ELSE IF ~last
                   THEN [sent EXCEPT !.last_exception = o.kind, !.attempt = @ + 1]
                   ELSE [sent EXCEPT !.last_exception = o.kind, !.pc = "raised"]
  /\ UNCHANGED <<saves, accounts, payouts, balance, schedule, today, req, response, tasks, runs, started,
                 sweeps, faults, debits>>

\* the call is over: the processor object is ready for its next call
CallEnd ==
  /\ call.pc \in {"returned", "raised"}
  /\ call' = [IdleCall EXCEPT !.access_token = call.access_token, !.issued = call.issued,
                              !.calls = call.calls, !.submits = call.submits]
  /\ UNCHANGED <<saves, accounts, payouts, balance, schedule, today, req, response, tasks, runs, started,
                 sweeps, faults, debits>>

\* StripeProcessor.process_payout lines 58-63: stripe.Transfer.create with
\* amount, currency, destination and description, and no idempotency_key
StripeTransfer(ref) ==
  /\ call.pc = "idle"
  /\ call.calls < MaxCalls
  /\ call' = [call EXCEPT !.calls = @ + 1,
                          !.submits = @ \cup {[adapter |-> "stripe", payout |-> ref,
                                               token |-> NoToken]}]
  /\ UNCHANGED <<saves, accounts, payouts, balance, schedule, today, req, response, tasks, runs, started,
                 sweeps, faults, debits>>

\* StripeProcessor.process_payout line 59: amount=int(payout.net_amount * 100),
\* an amount in cents
StripeTransferAmount(p) == p.net_amount * 100

\* _create_payout_batch line 349: "value": f"{payout.amount:.2f}", an amount
\* in currency units written with two decimals; PayPal pays it out as that
\* many cents
PayPalItemValue(p) == <<p.amount, 0>>
PayPalCents(value) == value[1] * 100 + value[2]

\* the processor of the payout's account is handed the payout: what it sends
\* (adapter, payout id, amount in cents)
RailSubmit(i) ==
  /\ call.pc = "idle"
  /\ call.calls < MaxCalls
  /\ i \in DOMAIN payouts
  /\ LET p == payouts[i]
         processor == get_processor(accounts[p.payout_account].account_type)
         cents == IF processor = "StripeProcessor"
                    THEN StripeTransferAmount(p)
                    ELSE PayPalCents(PayPalItemValue(p))
     IN /\ processor # "unsupported"
        /\ call' = [call EXCEPT !.calls = @ + 1,
                                !.submits = @ \cup {[adapter |-> processor, payout |-> i,
                                                     cents |-> cents]}]
  /\ UNCHANGED <<saves, accounts, payouts, balance, schedule, today, req, response, tasks, runs, started,
                 sweeps, faults, debits>>

\* batch_header.batch_status as get_payout_status reports it ('UNKNOWN' when
\* the answer has none), and how a request to PayPal ends inside
\* cancel_payout: with a response, with a PayPalError whose text holds '404',
\* or with another PayPalError
BatchStatuses == {"PENDING", "PROCESSING", "SUCCESS", "DENIED", "CANCELED", "UNKNOWN"}
RequestEnds == {"ok", "404", "error"}

\* PayPalProcessor.cancel_payout lines 448-486: the result, with the status
\* that was reported and whether the POST to .../cancel was sent
CancelResult(batch_status, lookup, cancel) ==
  IF lookup = "404"
    THEN [message |-> "PayPal payout cancellation is not currently supported", sent |-> FALSE]
  ELSE IF lookup = "error" THEN [message |-> "PayPalError", sent |-> FALSE]
  ELSE IF batch_status \in {"PENDING", "PROCESSING"}
    THEN IF cancel = "ok" THEN [message |-> "Payout cancellation requested", sent |-> TRUE]
         ELSE IF cancel = "404"
           THEN [message |-> "PayPal payout cancellation is not currently supported", sent |-> TRUE]
         ELSE [message |-> "PayPalError", sent |-> TRUE]
  ELSE [message |-> "Payout cannot be cancelled in current status", sent |-> FALSE]

\* cancel_payout with the test of line 452 taken away
CancelPayoutAnyStatus(i, batch_status, lookup, cancel) ==
  /\ Quiet
  /\ i \in DOMAIN payouts
  /\ payouts[i].payout_method = "paypal"
  /\ payouts[i].processor_reference # NULL
  /\ response' = [result |-> CancelResult("PENDING", lookup, cancel).message, payout |-> i,
                  answer |-> batch_status, sent |-> CancelResult("PENDING", lookup, cancel).sent]
  /\ UNCHANGED <<saves, call, accounts, payouts, balance, schedule, today, req, tasks, runs, started,
                 sweeps, faults, debits>>

\* cancel_payout is called with the batch id of payout i, a payout PayPal was
\* given: it reads and writes no row
CancelPayout(i, batch_status, lookup, cancel) ==
  /\ Quiet
  /\ i \in DOMAIN payouts
  /\ payouts[i].payout_method = "paypal"
  /\ payouts[i].processor_reference # NULL
  /\ response' = [result |-> CancelResult(batch_status, lookup, cancel).message, payout |-> i,
                  answer |-> batch_status, sent |-> CancelResult(batch_status, lookup, cancel).sent]
  /\ UNCHANGED <<saves, call, accounts, payouts, balance, schedule, today, req, tasks, runs, started,
                 sweeps, faults, debits>>

----------------------------------------------------------------------------
(* destroy of the two ModelViewSets (DELETE /payouts/{id}/, DELETE /accounts/{id}/) *)

\* An id whose row was deleted: ids are not given out again, the tables keep
\* the place
Removed == [NewPayout(0, 0, 0, NULL, 0) EXCEPT !.status = "removed"]
RemovedAccount(row) ==
  [row EXCEPT !.vendor = 0, !.is_primary = FALSE, !.verification_status = "removed"]

\* No create request is between its queries
Idle == Quiet /\ \A r \in DOMAIN req : req[r].pc = "idle"

\* PayoutViewSet is a ModelViewSet: destroy, for a row of get_queryset, which
\* IsVendorOwner lets the owner of the vendor do; the row is deleted
DestroyPayout(v, i) ==
  /\ Idle
  /\ i \in DOMAIN payouts
  /\ payouts[i].vendor = v
  /\ payouts' = [payouts EXCEPT ![i] = Removed]
  /\ response' = Response("204", i, NULL)
  /\ UNCHANGED <<saves, call, accounts, balance, schedule, today, req, tasks, runs, started, sweeps, faults, debits>>

\* PayoutAccountViewSet is a ModelViewSet: destroy; Payout.payout_account is
\* on_delete=CASCADE, the payouts made to the account are deleted with it
DestroyAccount(v, a) ==
  /\ Idle
  /\ a \in DOMAIN accounts
  /\ accounts[a].vendor = v
  /\ accounts' = [accounts EXCEPT ![a] = RemovedAccount(@)]
  /\ payouts' = [i \in DOMAIN payouts |->
                   IF payouts[i].payout_account = a THEN Removed ELSE payouts[i]]
  /\ response' = Response("204", 0, NULL)
  /\ UNCHANGED <<saves, call, balance, schedule, today, req, tasks, runs, started, sweeps, faults, debits>>

----------------------------------------------------------------------------
(* Specification *)

Init ==
  /\ accounts = InitAccounts
  /\ payouts = << >>
  /\ balance = [v \in Vendors |-> [available_balance |-> InitialAvailable, total_payouts |-> 0]]
  /\ schedule = [v \in Vendors |->
                   [schedule_type |-> "weekly", is_active |-> TRUE, auto_process |-> TRUE,
                    next_payout_date |-> 0, minimum_payout_amount |-> DefaultMinimumPayout]]
  /\ today = 0
  /\ req = [r \in 1..MaxRequests |-> IdleRequest]
  /\ response = NoResponse
  /\ tasks = EmptyBag
  /\ runs = EmptyBag
  /\ started = 0
  /\ sweeps = EmptyBag
  /\ faults = 0
  /\ debits = << >>
  /\ call = IdleCall
  /\ saves = EmptyBag

\* the response reaches the client
Deliver ==
  /\ response.result # NULL
  /\ response' = NoResponse
  /\ UNCHANGED <<saves, call, accounts, payouts, balance, schedule, today, req, tasks, runs, started, sweeps, faults, debits>>

Next ==
  \/ \E r \in DOMAIN req, v \in Vendors, acct \in AccountIds, amount \in Amounts :
        CreateRecord(r, v, acct, amount)
  \/ \E r \in DOMAIN req, answer \in ProcessorAnswers : CreateSubmit(r, answer)
  \/ \E r \in DOMAIN req : CreateWriteBalance(r)
  \/ Deliver
  \/ \E t \in BagToSet(tasks) : PPFetch(t)
  \/ \E t \in BagToSet(tasks) : PPSavePayout(t)
  \/ \E t \in BagToSet(tasks), notifyOk \in BOOLEAN : PPWriteBalance(t, notifyOk)
  \/ \E t \in BagToSet(tasks) : PPRaise(t)
  \/ RetryStart
  \/ \E run \in BagToSet(runs) : RetryItem(run)
  \/ SweepStart
  \/ \E run \in BagToSet(sweeps), ref \in RefChoices : SweepItem(run, ref)

Spec == Init /\ [][Next]_vars

\* The processor adapters alone: submits of payouts through
\* PayPalProcessor (each an API call with its retry loop) and StripeProcessor.
\* An HTTP attempt always ends: requests is given timeout=self.timeout.
\* The payouts a submit may be for, by reference_number, and the values the
\* random part of a sender_batch_id may take: those seen in a request already,
\* or a new one (the next unused value stands for every other value)
SubmitRefs == {ref \in 1..MaxRef : ref = 1 \/ \E s \in call.submits : s.payout = ref - 1}
NonceChoices == {n \in 1..MaxNonce : n = 1 \/ \E s \in call.submits : s.token[2] = n - 1}

CallNext ==
  \/ \E ref \in SubmitRefs, max_retries \in 0..MaxRetriesSetting, nonce \in NonceChoices,
        expired \in BOOLEAN, tokenOk \in BOOLEAN :
        CallStart(ref, max_retries, nonce, expired, tokenOk)
  \/ \E o \in Outcomes : CallAttempt(o)
  \/ CallEnd
  \/ \E ref \in SubmitRefs : StripeTransfer(ref)

CallSpec == Init /\ [][CallNext]_vars /\ WF_vars(\E o \in Outcomes : CallAttempt(o))

\* PayoutViewSet.create alone, for a vendor with the usual balance or with one
\* above the PayPal limit, asking for amounts up to one above that limit
ApiAmounts == Amounts \cup {PayPalMaxAmount + 1}

ApiInit ==
  /\ accounts = InitAccounts
  /\ payouts = << >>
  /\ \E available \in {InitialAvailable, LargeAvailable} :
       balance = [v \in Vendors |-> [available_balance |-> available, total_payouts |-> 0]]
  /\ schedule = [v \in Vendors |->
                   [schedule_type |-> "weekly", is_active |-> TRUE, auto_process |-> TRUE,
                    next_payout_date |-> 0, minimum_payout_amount |-> DefaultMinimumPayout]]
  /\ today = 0
  /\ req = [r \in 1..MaxRequests |-> IdleRequest]
  /\ response = NoResponse
  /\ tasks = EmptyBag
  /\ runs = EmptyBag
  /\ started = 0
  /\ sweeps = EmptyBag
  /\ faults = 0
  /\ debits = << >>
  /\ call = IdleCall
  /\ saves = EmptyBag

ApiNext ==
  \/ \E r \in DOMAIN req, v \in Vendors, acct \in AccountIds, amount \in ApiAmounts :
        CreateRecord(r, v, acct, amount)
  \/ \E r \in DOMAIN req, answer \in ProcessorAnswers : CreateSubmit(r, answer)
  \/ \E r \in DOMAIN req : CreateWriteBalance(r)
  \/ Deliver

ApiSpec == ApiInit /\ [][ApiNext]_vars

\* The two paths that create payouts, with the vendor adding payout accounts
AccountNext ==
  \/ \E v \in Vendors, account_type \in {BANK_ACCOUNT, PAYPAL, STRIPE, CASH}, is_primary \in BOOLEAN :
        CreateAccount(v, account_type, is_primary)
  \/ \E row \in BagToSet(saves) : AccountInsert(row)
  \/ \E r \in DOMAIN req, v \in Vendors, acct \in AccountIds, amount \in Amounts :
        CreateRecord(r, v, acct, amount)
  \/ \E r \in DOMAIN req, answer \in ProcessorAnswers : CreateSubmit(r, answer)
  \/ \E r \in DOMAIN req : CreateWriteBalance(r)
  \/ Deliver
  \/ SweepStart
  \/ \E run \in BagToSet(sweeps), ref \in RefChoices : SweepItem(run, ref)

AccountSpec == Init /\ [][AccountNext]_vars

\* The payout lifecycle with the webhooks of PayPal and no fault, under fair
\* scheduling: a request that was started is finished, a task message that
\* was sent is executed, the periodic tasks run whenever they have work, and
\* PayPal delivers its event for every payout it was given
LiveNext ==
  \/ \E r \in DOMAIN req, v \in Vendors, acct \in AccountIds, amount \in Amounts :
        CreateRecord(r, v, acct, amount)
  \/ \E r \in DOMAIN req, answer \in ProcessorAnswers : CreateSubmit(r, answer)
  \/ \E r \in DOMAIN req : CreateWriteBalance(r)
  \/ Deliver
  \/ \E i \in 1..MaxPayouts : Notify(i)
  \/ \E t \in BagToSet(tasks) : PPFetch(t)
  \/ \E t \in BagToSet(tasks) : PPSavePayout(t)
  \/ \E t \in BagToSet(tasks) : PPWriteBalance(t, TRUE)
  \/ RetryStart
  \/ \E run \in BagToSet(runs) : RetryItem(run)
  \/ SweepStart
  \/ \E run \in BagToSet(sweeps), ref \in RefChoices : SweepItem(run, ref)

Fairness ==
  /\ WF_vars(\E r \in DOMAIN req, answer \in ProcessorAnswers : CreateSubmit(r, answer))
  /\ WF_vars(\E r \in DOMAIN req : CreateWriteBalance(r))
  /\ WF_vars(Deliver)
  /\ WF_vars(\E t \in BagToSet(tasks) : PPFetch(t))
  /\ WF_vars(\E t \in BagToSet(tasks) : PPSavePayout(t))
  /\ WF_vars(\E t \in BagToSet(tasks) : PPWriteBalance(t, TRUE))
  /\ SF_vars(RetryStart)
  /\ SF_vars(\E run \in BagToSet(runs) : RetryItem(run))
  /\ SF_vars(SweepStart)
  /\ SF_vars(\E run \in BagToSet(sweeps), ref \in RefChoices : SweepItem(run, ref))
  /\ \A i \in 1..MaxPayouts : SF_vars(Notify(i))

LiveSpec == Init /\ [][LiveNext]_vars /\ Fairness

\* The payout account endpoints alone: accounts are added, concurrently, and
\* verified
AccountTypes == {BANK_ACCOUNT, PAYPAL, STRIPE, CASH}

SaveNext ==
  \/ \E v \in Vendors, account_type \in AccountTypes, is_primary \in BOOLEAN :
        CreateAccount(v, account_type, is_primary)
  \/ \E row \in BagToSet(saves) : AccountInsert(row)
  \/ \E a \in 1..MaxAccounts, saved \in BOOLEAN : Verify(a, saved)
  \/ Deliver

SaveSpec == Init /\ [][SaveNext]_vars

\* process_scheduled_payouts over two vendors, the first with or without a
\* primary payout account, each with a balance under or over the minimum of
\* its schedule; a run may start while another is still in its loop
SweepVendors == {1, 2}

SweepAccounts(primary) ==
  << [vendor |-> 1, account_type |-> STRIPE, is_primary |-> primary,
      verification_status |-> "verified", has_stripe_id |-> TRUE, has_email |-> FALSE,
      verified_at |-> TRUE, verification_attempts |-> 0],
     [vendor |-> 2, account_type |-> PAYPAL, is_primary |-> TRUE,
      verification_status |-> "verified", has_stripe_id |-> FALSE, has_email |-> TRUE,
      verified_at |-> TRUE, verification_attempts |-> 0] >>

SweepInit ==
  /\ \E primary \in BOOLEAN : accounts = SweepAccounts(primary)
  /\ payouts = << >>
  /\ \E available \in [SweepVendors -> {MIN_PAYOUT_AMOUNT, InitialAvailable}] :
       balance = [v \in SweepVendors |->
                    [available_balance |-> available[v], total_payouts |-> 0]]
  /\ \E schedule_type \in [SweepVendors -> {"weekly", "manual"}] :
       schedule = [v \in SweepVendors |->
                     [schedule_type |-> schedule_type[v], is_active |-> TRUE, auto_process |-> TRUE,
                      next_payout_date |-> 0, minimum_payout_amount |-> DefaultMinimumPayout]]
  /\ today = 0
  /\ req = [r \in 1..MaxRequests |-> IdleRequest]
  /\ response = NoResponse
  /\ tasks = EmptyBag
  /\ runs = EmptyBag
  /\ started = 0
  /\ sweeps = EmptyBag
  /\ faults = 0
  /\ debits = << >>
  /\ call = IdleCall
  /\ saves = EmptyBag

SweepNext ==
  \/ SweepBegin(MaxOverlap)
  \/ \E run \in BagToSet(sweeps), ref \in RefChoices : SweepItem(run, ref)
  \/ \E t \in BagToSet(tasks) : PPFetch(t)
  \/ \E t \in BagToSet(tasks) : PPSavePayout(t)
  \/ \E t \in BagToSet(tasks) : PPWriteBalance(t, TRUE)

SweepSpec == SweepInit /\ [][SweepNext]_vars

\* The two rails side by side: one saved payout, of any amount and fees, to
\* the vendor's Stripe account or to its PayPal account, handed to the
\* processor of its account
RailAmounts == {MIN_PAYOUT_AMOUNT, 70, InitialAvailable}
RailFees == {0, 1, 3}

RailInit ==
  /\ accounts = InitAccounts
  /\ \E acct \in {1, 2}, amount \in RailAmounts, commission_fee \in RailFees,
        processing_fee \in RailFees :
       payouts = << PayoutSave([NewPayout(1, acct, amount,
                                          get_payout_method(InitAccounts[acct].account_type), amount)
                                  EXCEPT !.commission_fee = commission_fee,
                                         !.processing_fee = processing_fee], 1) >>
  /\ balance = [v \in Vendors |-> [available_balance |-> InitialAvailable, total_payouts |-> 0]]
  /\ schedule = [v \in Vendors |->
                   [schedule_type |-> "weekly", is_active |-> TRUE, auto_process |-> TRUE,
                    next_payout_date |-> 0, minimum_payout_amount |-> DefaultMinimumPayout]]
  /\ today = 0
  /\ req = [r \in 1..MaxRequests |-> IdleRequest]
  /\ response = NoResponse
  /\ tasks = EmptyBag
  /\ runs = EmptyBag
  /\ started = 0
  /\ sweeps = EmptyBag
  /\ faults = 0
  /\ debits = << 0 >>
  /\ call = IdleCall
  /\ saves = EmptyBag

RailNext == \E i \in 1..MaxPayouts : RailSubmit(i)

RailSpec == RailInit /\ [][RailNext]_vars

\* The endpoints of the two viewsets that write: create of a payout, and
\* destroy of a payout and of a payout account, between create requests
DeleteNext ==
  \/ \E r \in DOMAIN req, v \in Vendors, acct \in AccountIds, amount \in Amounts :
        CreateRecord(r, v, acct, amount)
  \/ \E r \in DOMAIN req, answer \in ProcessorAnswers : CreateSubmit(r, answer)
  \/ \E r \in DOMAIN req : CreateWriteBalance(r)
  \/ Deliver
  \/ \E v \in Vendors, i \in 1..MaxPayouts : DestroyPayout(v, i)
  \/ \E v \in Vendors, a \in AccountIds : DestroyAccount(v, a)

DeleteSpec == Init /\ [][DeleteNext]_vars

\* PayoutViewSet.create with the webhook endpoint and cancel_payout, called
\* for any payout PayPal was given whatever PayPal reports about its batch
CancelNext ==
  \/ \E r \in DOMAIN req, v \in Vendors, acct \in AccountIds, amount \in Amounts :
        CreateRecord(r, v, acct, amount)
  \/ \E r \in DOMAIN req, answer \in ProcessorAnswers : CreateSubmit(r, answer)
  \/ \E r \in DOMAIN req : CreateWriteBalance(r)
  \/ Deliver
  \/ \E i \in 0..MaxPayouts, resource \in Resources :
        Webhook("PAYMENT.PAYOUTS-ITEM.CANCELED", i, resource)
  \/ \E i \in 1..MaxPayouts, batch_status \in BatchStatuses, lookup \in RequestEnds,
        cancel \in RequestEnds :
        CancelPayout(i, batch_status, lookup, cancel)

CancelSpec == Init /\ [][CancelNext]_vars

\* PayoutViewSet.create with the webhook endpoint: any event may arrive, about
\* any payout or about none
WebhookNext ==
  \/ \E r \in DOMAIN req, v \in Vendors, acct \in AccountIds, amount \in Amounts :
        CreateRecord(r, v, acct, amount)
  \/ \E r \in DOMAIN req, answer \in ProcessorAnswers : CreateSubmit(r, answer)
  \/ \E r \in DOMAIN req : CreateWriteBalance(r)
  \/ Deliver
  \/ \E event_type \in EventTypes, i \in 0..MaxPayouts, resource \in Resources :
        Webhook(event_type, i, resource)

WebhookSpec == Init /\ [][WebhookNext]_vars

----------------------------------------------------------------------------
(* Properties *)

RECURSIVE SumAmounts(_)
SumAmounts(S) ==
  IF S = {} THEN 0
  ELSE LET i == CHOOSE x \in S : TRUE
       IN payouts[i].amount + SumAmounts(S \ {i})

\* no handler is part-way through and no task message is queued
Quiescent ==
  /\ Quiet
  /\ \A r \in DOMAIN req : req[r].pc = "idle"
  /\ tasks = EmptyBag
  /\ runs = EmptyBag
  /\ sweeps = EmptyBag

\* the create requests answered 201: only PayoutViewSet.create makes a payout
\* PROCESSING, and it answers 201 when it has written the balance
Accepted == {i \in DOMAIN payouts : payouts[i].status = PROCESSING /\ debits[i] >= 1}

\* payouts that hold funds (the balance was debited for them) and are not settled
Holding == {i \in DOMAIN payouts : payouts[i].status \in {PENDING, PROCESSING} /\ debits[i] >= 1}

Completed == {i \in DOMAIN payouts : payouts[i].status = COMPLETED}

C4_DebitedAtMostOnce ==
  \A i \in DOMAIN payouts :
    /\ debits[i] <= 1
    /\ payouts[i].status \in {FAILED, CANCELLED} => debits[i] = 0

\* C5: idempotent confirmation: an execution of process_payout that found the
\* payout already COMPLETED leaves available_balance and total_payouts as the
\* first confirmation left them.
C5_IdempotentConfirmation ==
  [][\A t \in BagToSet(tasks) :
       (t.loaded = COMPLETED /\ t.pc = "balread" /\ ~BagIn(t, tasks')) => balance' = balance]_vars

\* the status changes the payout state machine allows
LegalChanges ==
  { <<PENDING, PROCESSING>>, <<PROCESSING, COMPLETED>>, <<PROCESSING, FAILED>>,
    <<PENDING, FAILED>>, <<PENDING, CANCELLED>>, <<PROCESSING, CANCELLED>>,
    <<FAILED, PENDING>> }

\* C6: every change of a payout's status is one of PENDING->PROCESSING,
\* PROCESSING->COMPLETED, PROCESSING->FAILED, PENDING->FAILED,
\* PENDING->CANCELLED, PROCESSING->CANCELLED, FAILED->PENDING.
C6_LegalStatusChanges ==
  [][\A i \in DOMAIN payouts :
       payouts'[i].status # payouts[i].status =>
         <<payouts[i].status, payouts'[i].status>> \in LegalChanges]_vars

\* C7: terminal outcomes win: a COMPLETED or CANCELLED payout never changes
\* status again, and a FAILED payout leaves FAILED only by the retry
\* transition to PENDING.
C7_TerminalOutcomesWin ==
  [][\A i \in DOMAIN payouts :
       /\ payouts[i].status \in {COMPLETED, CANCELLED} => payouts'[i].status = payouts[i].status
       /\ (payouts[i].status = FAILED /\ payouts'[i].status # FAILED) =>
            (payouts'[i].status = PENDING /\ payouts'[i].retry_count = payouts[i].retry_count + 1)]_vars

\* C8: payout-level retry is bounded and explicit: retry_count <= 3 always; an
\* iteration of retry_failed_payouts is applied only to a payout that is
\* FAILED with retry_count < 3 and raises its retry_count by exactly 1; and
\* process_payout never starts on a payout that is FAILED (a failed payout is
\* processed again only after the retry transition made it PENDING).
C8_RetryBoundedAndExplicit ==
  /\ [](\A i \in DOMAIN payouts : payouts[i].retry_count <= MaxPayoutRetries)
  /\ [][\A run \in BagToSet(runs) :
          RetryItem(run) =>
            /\ Retryable(payouts[Head(run).id])
            /\ payouts'[Head(run).id].retry_count = payouts[Head(run).id].retry_count + 1]_vars
  /\ [](\A t \in BagToSet(tasks) : t.loaded # FAILED)

C17_OneTokenPerPayout ==
  \A s \in call.submits :
    /\ s.token # NoToken
    /\ s.token[1] = s.payout
    /\ \A other \in call.submits : other.payout = s.payout => other.token = s.token

\* the failures of an HTTP attempt the contract calls transient and permanent
Transient ==
  [kind : {"Timeout", "ConnectionError"}, status_code : {0}]
    \cup [kind : {"response"}, status_code : {s \in Statuses : s >= 500 \/ s = 429}]
Permanent == [kind : {"response"}, status_code : {400, 403, 404}]

\* C18: in a PayPal API call a transient failure (timeout, connection error,
\* 5xx, 429) is retried until the attempt limit is reached: the call raises
\* after a transient failure only when max_retries attempts were made; and a
\* permanent failure (400, 403, 404) ends the call at once.
C18_TransientRetriedPermanentNot ==
  /\ (call.pc = "raised" /\ call.attempts # << >> /\ call.attempts[Len(call.attempts)] \in Transient)
       => Len(call.attempts) = call.max_retries
  /\ \A k \in DOMAIN call.attempts :
       call.attempts[k] \in Permanent => (k = Len(call.attempts) /\ call.pc = "raised")

\* C19: every PayPal API call makes at most max_retries HTTP attempts and
\* ends, for any sequence of responses and exceptions; it ends by returning
\* the response of its last attempt, whose status is below 400, or by raising
\* PayPalError.
C19_CallTerminates ==
  /\ [](/\ Len(call.attempts) <= call.max_retries
        /\ call.pc = "loop" => (call.attempt < call.max_retries /\ Len(call.attempts) = call.attempt)
        /\ call.pc = "returned" =>
             /\ call.attempts # << >>
             /\ call.attempts[Len(call.attempts)].kind = "response"
             /\ call.result = call.attempts[Len(call.attempts)].status_code
             /\ call.result < 400)
  /\ (call.pc = "loop" ~> call.pc \in {"returned", "raised"})

\* C19 witness: a call that used up three attempts on exceptions and raised
C19_Witness ==
  /\ call.pc = "raised"
  /\ call.max_retries = 3
  /\ Len(call.attempts) = 3
  /\ call.last_exception = "Timeout"

\* the answers of PayoutCreateSerializer.validate that refuse a request
Rejections == {"400 account", "400 unverified", "500 balance"}

\* C13: a create request refused because the account is not the vendor's, the
\* account is not verified, the balance is insufficient or the amount is below
\* the platform minimum creates no Payout record, goes on to no processor call
\* and leaves the balance as it was.
C13_RejectionHasNoEffect ==
  [][(response.result = NULL /\ response'.result \in Rejections) =>
       /\ payouts' = payouts
       /\ balance' = balance
       /\ req' = req
       /\ debits' = debits]_vars

\* C13 witness: a request refused for its balance after another was accepted
C13_Witness ==
  /\ response.result = "500 balance"
  /\ \E i \in DOMAIN payouts : payouts[i].status = PROCESSING /\ debits[i] = 1

Unsettled(i) == i \in DOMAIN payouts /\ payouts[i].status \in {PENDING, PROCESSING}
Settled(i) == i \in DOMAIN payouts /\ payouts[i].status \in {COMPLETED, FAILED, CANCELLED}

\* C12: no payout stays unsettled forever: under fair scheduling of the tasks
\* and of webhook delivery every payout that is PENDING or PROCESSING is
\* eventually COMPLETED, FAILED or CANCELLED.
C12_EventuallySettled == \A i \in 1..MaxPayouts : Unsettled(i) ~> Settled(i)

\* the deliveries the handler acknowledges: it answers success and a message
Acknowledgments == {WebhookMessage(event_type) : event_type \in EventTypes}

\* C21: a success notification for a payout PayPal was given that is PROCESSING makes it
\* COMPLETED with completed_at set and raises total_payouts by its amount; a
\* failure notification makes it FAILED with a failure_reason and puts the
\* amount back on available_balance.
C21_WebhookSettlesInFlight ==
  [][\A i \in DOMAIN payouts :
       (/\ response.result = NULL
        /\ response'.payout = i
        /\ response'.answer \in WebhookEvents
        /\ response'.resource = "object"
        /\ payouts[i].payout_method = "paypal"
        /\ payouts[i].status = PROCESSING) =>
         LET v == payouts[i].vendor
         IN /\ response'.answer = "PAYMENT.PAYOUTS-ITEM.SUCCEEDED" =>
                 /\ payouts'[i].status = COMPLETED
                 /\ payouts'[i].completed_at
                 /\ balance'[v].total_payouts = balance[v].total_payouts + payouts[i].amount
            /\ response'.answer = "PAYMENT.PAYOUTS-ITEM.FAILED" =>
                 /\ payouts'[i].status = FAILED
                 /\ payouts'[i].failure_reason # NULL
                 /\ balance'[v].available_balance =
                      balance[v].available_balance + payouts[i].amount]_vars

C23_UnhandledAcknowledged ==
  [][(response.result = NULL /\ response'.answer \in OtherEvents) =>
       /\ response'.result \in Acknowledgments
       /\ payouts' = payouts
       /\ balance' = balance
       /\ debits' = debits]_vars

\* C23 witness: an event of no type and no resource was acknowledged while a
\* payout was in flight
C23_Witness ==
  /\ response.answer = ""
  /\ response.resource = NULL
  /\ response.result = "Webhook received but not processed"
  /\ \E i \in DOMAIN payouts : payouts[i].status = PROCESSING

\* C24: each vendor has at most one payout account with is_primary = TRUE, in
\* every state, for any sequence and interleaving of PayoutAccount.save calls.
C24_OnePrimaryPerVendor ==
  \A v \in Vendors :
    Cardinality({a \in DOMAIN accounts : accounts[a].vendor = v /\ accounts[a].is_primary}) <= 1

\* C25: after verify on an account: when the adapter's verification succeeded
\* the account is verified with verified_at set; when it failed, by returning
\* a failure or by raising, the account's verification_status is failed and
\* its verification_attempts is one more than before.
C25_VerifyOutcomeRecorded ==
  [][(response.result = NULL /\ response'.result \in VerifyAnswers) =>
       LET a == response'.account
       IN IF response'.result = "200 verified"
            THEN /\ accounts'[a].verification_status = "verified"
                 /\ accounts'[a].verified_at
            ELSE /\ accounts'[a].verification_status = "failed"
                 /\ accounts'[a].verification_attempts = accounts[a].verification_attempts + 1]_vars

C29_SweepCreatesWhenDue ==
  [][\A run \in BagToSet(sweeps), ref \in 1..MaxRef :
       SweepItem(run, ref) =>
         LET v == Head(run).vendor
             created == Len(payouts') > Len(payouts)
             p == payouts'[Len(payouts')]
         IN /\ created <=>
                 /\ schedule[v].auto_process
                 /\ schedule[v].next_payout_date # NoDate
                 /\ schedule[v].next_payout_date <= today
                 /\ balance[v].available_balance >= schedule[v].minimum_payout_amount
            /\ created =>
                 /\ Len(payouts') = Len(payouts) + 1
                 /\ p.vendor = v
                 /\ p.amount = balance[v].available_balance
                 /\ p.payout_account = PrimaryAccount(v)]_vars

\* the interval the contract gives each schedule type
Cadence(schedule_type, day) ==
  IF schedule_type = "weekly" THEN day + 7
  ELSE IF schedule_type = "bi_weekly" THEN day + 14
  ELSE IF schedule_type = "monthly" THEN day + 30
  ELSE NoDate

\* C30: after an iteration of the sweep on a schedule the schedule's
\* next_payout_date is today + 7 for weekly, today + 14 for bi-weekly, today +
\* 30 for monthly, and null for manual.
C30_ScheduleAdvanced ==
  [][\A run \in BagToSet(sweeps), ref \in 1..MaxRef :
       SweepItem(run, ref) =>
         LET v == Head(run).vendor
         IN schedule'[v].next_payout_date = Cadence(schedule[v].schedule_type, today)]_vars

\* C39: in a PayPal API call, after an attempt answered 401 the cached access
\* token is cleared and the next attempt of the call goes out with another
\* access token than the one just rejected.
C39_FreshTokenAfter401 ==
  /\ (/\ call.pc = "loop"
      /\ call.attempts # << >>
      /\ call.attempts[Len(call.attempts)] = [kind |-> "response", status_code |-> 401])
       => call.access_token = 0
  /\ \A k \in 1..(Len(call.attempts) - 1) :
       call.attempts[k] = [kind |-> "response", status_code |-> 401]
         => call.sent[k + 1] # call.sent[k]

\* C33: a failure to dispatch the notification of a payout changes neither the
\* payout's status nor its failure_reason: the payout process_payout has
\* completed stays COMPLETED when the dispatch of its notification fails.
C33_NotifyFailureHarmless ==
  [][\A t \in BagToSet(tasks) :
       PPWriteBalance(t, FALSE) =>
         /\ payouts[t.payout].status = COMPLETED => payouts'[t.payout].status = COMPLETED
         /\ payouts'[t.payout].status = payouts[t.payout].status
         /\ payouts'[t.payout].failure_reason = payouts[t.payout].failure_reason]_vars

C36_SameProcessorForVerify ==
  [][(response.result = NULL /\ response'.result \in VerifyAnswers \cup {"400 unsupported"}) =>
       LET account_type == accounts[response'.account].account_type
       IN get_processor(account_type) # "unsupported" =>
            /\ get_verifier(account_type) = get_processor(account_type)
            /\ response'.result # "400 unsupported"
            /\ response'.result # "400 verification failed"]_vars

\* C31: an iteration of the sweep that ends in an error changes no table (so no
\* other vendor's payouts, balance or schedule) and the run goes on with the
\* schedules it still has to handle
C31_SweepErrorIsolated ==
  [][\A run \in BagToSet(sweeps), ref \in RefChoices :
       LET item == Head(run)
       IN (/\ SweepItem(run, ref)
           /\ item.bal.available_balance >= item.sched.minimum_payout_amount
           /\ (PrimaryAccount(item.vendor) = 0 \/ RefInUse(ref)))
            => /\ payouts' = payouts
               /\ balance' = balance
               /\ \A w \in DOMAIN schedule \ {item.vendor} : schedule'[w] = schedule[w]
               /\ Tail(run) # << >> => BagIn(Tail(run), sweeps')]_vars

\* C31 witness: the run is over; the schedule of vendor 1, whose iteration
\* failed, is as it was, and vendor 2 after it got its payout and its new date
C31_Witness ==
  /\ sweeps = EmptyBag
  /\ PrimaryAccount(1) = 0
  /\ balance[1].available_balance >= schedule[1].minimum_payout_amount
  /\ schedule[1].next_payout_date = 0
  /\ \E i \in DOMAIN payouts : payouts[i].vendor = 2
  /\ \A i \in DOMAIN payouts : payouts[i].vendor = 2
  /\ schedule[2].next_payout_date > today

C32_PayoutsAppendOnly ==
  [][/\ Len(payouts') >= Len(payouts)
     /\ \A i \in DOMAIN payouts : payouts[i] # Removed => payouts'[i] # Removed]_vars

====
